---- MODULE Spec2Model ----
(***************************************************************************)
(* Kerykeion MCP server: the line-oriented JSON-RPC dispatcher             *)
(* (src/src/kerykeion_mcp/server.py, src/kerykeion_mcp.py), the chart      *)
(* adapters with their working-directory / environment sandbox and the     *)
(* city gazetteer lookup (src/src/kerykeion_mcp/core.py).                  *)
(*                                                                         *)
(* The astrology engine (kerykeion.AstrologicalSubject and friends) is an  *)
(* external library: every call of it either returns or raises, chosen     *)
(* nondeterministically.  File-system calls of the sandbox acquisition     *)
(* (getcwd, mkdtemp, chdir, makedirs) may fail and rmtree may fail; once   *)
(* os.getcwd() has returned the starting directory, the chdir back to it   *)
(* is taken to succeed.                                                    *)
(***************************************************************************)
EXTENDS Integers, Sequences, FiniteSets, TLC

VARIABLES
    pc,         \* position of the single thread of control
    input,      \* the class of each line read from stdin so far, in order
    output,     \* the class of each line printed to stdout so far, in order
    request,    \* the line being processed (the loop variable `line`)
    response,   \* the `response` local of main, once computed
    cwd,        \* os.getcwd()
    env,        \* os.environ restricted to the variables the code touches
    env0,       \* os.environ as it was when the first request or call began
    dirs,       \* temporary directories that exist on disk
    gazetteer,  \* content of china_cities.json as load_china_cities sees it
    fr,         \* frame of the adapter operation in progress
    calls       \* engine invocations made by the adapter operation in progress

vars == <<pc, input, output, request, response, cwd, env, env0, dirs,
          gazetteer, fr, calls>>

-----------------------------------------------------------------------------
(* Bounds of the model *)

\* number of lines on stdin
MaxLines == 2

-----------------------------------------------------------------------------
(* Program constants *)

\* JSON-RPC error codes used by main
ParseErrorCode == -32700
MethodNotFoundCode == -32601
InternalErrorCode == -32603

\* absent value: Python None / JSON null
None == "None"
\* a key that is not in a mapping at all
Missing == "<missing>"

\* dict.get(key): a missing key reads as None
Get(v) == IF v = Missing THEN None ELSE v

\* dict.get(key, default)
GetDefault(v, default) == IF v = Missing THEN default ELSE v

-----------------------------------------------------------------------------
(* Python values.  An optional coordinate or city name is a tuple: <<>> for *)
(* None, <<v>> for the value v.  A city name is a sequence of characters,   *)
(* each character a number, so that `a in b` on strings is a real test.     *)

NoneOpt == <<>>
Some(v) == <<v>>
IsNone(o) == o = <<>>
Val(o) == o[1]

\* city names: Fengning (the aliased county), Chengde, Shanghai and a city
\* of another province whose name contains "Shanghai"
FengNing == <<1, 2>>
ChengDe == <<3, 4>>
ShangHai == <<5, 6>>
ShangHaiXin == <<5, 6, 7>>

\* Python `a in b` for two strings: a is a contiguous part of b
IsSubstr(a, b) ==
    \E i \in 0..(Len(b) - Len(a)) : SubSeq(b, i + 1, i + Len(a)) = a

-----------------------------------------------------------------------------
(* The gazetteer: province -> city -> {latitude, longitude}, in file order  *)

EmptyGazetteer == <<>>

SampleGazetteer ==
    << [prov |-> "Jiangsu",
        cities |-> << [name |-> ShangHaiXin, latitude |-> 32, longitude |-> 120] >>],
       [prov |-> "Hebei",
        cities |-> << [name |-> ChengDe, latitude |-> 41, longitude |-> 118] >>],
       [prov |-> "Shanghai",
        cities |-> << [name |-> ShangHai, latitude |-> 31, longitude |-> 121] >>] >>

Gazetteers == {EmptyGazetteer, SampleGazetteer}

Found(data) == [kind |-> "found", latitude |-> Some(data.latitude),
                longitude |-> Some(data.longitude)]
Absent == [kind |-> "absent", latitude |-> NoneOpt, longitude |-> NoneOpt]
Raised == [kind |-> "raise", latitude |-> NoneOpt, longitude |-> NoneOpt]

\* positions (province, city) of the gazetteer, compared in iteration order
Positions(g) ==
    UNION {{<<i, j>> : j \in 1..Len(g[i].cities)} : i \in 1..Len(g)}
Before(q, r) == q[1] < r[1] \/ (q[1] = r[1] /\ q[2] < r[2])
First(S) == CHOOSE q \in S : \A r \in S : r = q \/ Before(q, r)
CityAt(g, q) == g[q[1]].cities[q[2]]

\* first loop: `city_name in cities` for each province
ExactMatches(g, city) ==
    {q \in Positions(g) : ~IsNone(city) /\ CityAt(g, q).name = Val(city)}

\* second loop: `city_name in city or city in city_name`
FuzzyMatches(g, city) ==
    {q \in Positions(g) : IsSubstr(Val(city), CityAt(g, q).name)
                          \/ IsSubstr(CityAt(g, q).name, Val(city))}

\* the hard-coded alias of Fengning to Chengde in Hebei
AliasMatches(g, city) ==
    {q \in Positions(g) : /\ IsSubstr(FengNing, Val(city))
                          /\ g[q[1]].prov = "Hebei"
                          /\ CityAt(g, q).name = ChengDe}

\* the fuzzy loop tried before the exact one
find_city_coordinates_fuzzy_first(g, city, nation) ==
    IF nation # "CN" THEN Absent
    ELSE IF IsNone(city) THEN Raised
    ELSE IF FuzzyMatches(g, city) # {}
         THEN Found(CityAt(g, First(FuzzyMatches(g, city))))
    ELSE IF AliasMatches(g, city) # {}
         THEN Found(CityAt(g, First(AliasMatches(g, city))))
    ELSE Absent

find_city_coordinates(g, city, nation) ==
    IF nation # "CN" THEN Absent
    ELSE IF ExactMatches(g, city) # {}
         THEN Found(CityAt(g, First(ExactMatches(g, city))))
    \* with city None the first `in` on a string raises TypeError: in the
    \* fuzzy loop when there is a city, else in the alias test
    ELSE IF IsNone(city) THEN Raised
    ELSE IF FuzzyMatches(g, city) # {}
         THEN Found(CityAt(g, First(FuzzyMatches(g, city))))
    ELSE IF AliasMatches(g, city) # {}
         THEN Found(CityAt(g, First(AliasMatches(g, city))))
    ELSE Absent

-----------------------------------------------------------------------------
(* Birth data and request lines *)

\* a key that is not in a person mapping (city only: its default differs)
NoKey == <<"no", "key">>

\* a person mapping that is None (person1_data / person2_data not supplied)
NoPerson == [given |-> FALSE, core |-> Missing, city |-> NoKey, nation |-> Missing,
             longitude |-> NoneOpt, latitude |-> NoneOpt, tz_str |-> Missing,
             zodiac_type |-> Missing, sidereal_mode |-> Missing]

\* core stands for name, year, month, day, hour, minute
Person(core, city, nation, lng, lat, tz) ==
    [given |-> TRUE, core |-> core, city |-> city, nation |-> nation,
     longitude |-> lng, latitude |-> lat, tz_str |-> tz,
     zodiac_type |-> Missing, sidereal_mode |-> Missing]

\* the same birth data with the two optional zodiac arguments supplied
WithZodiac(p, zodiac, mode) ==
    [p EXCEPT !.zodiac_type = zodiac, !.sidereal_mode = mode]

\* an empty mapping: every key missing
EmptyPerson == Person(Missing, NoKey, Missing, NoneOpt, NoneOpt, Missing)

\* explicit coordinates, no local gazetteer for the nation
PersonExplicit == Person("core", Some(<<8, 9>>), "US", Some(12), Some(41), "Europe/Rome")
\* a Chinese city the gazetteer knows, no coordinates, no time zone
PersonShanghai == Person("core", Some(ShangHai), "CN", NoneOpt, NoneOpt, Missing)
\* a city only the engine's own lookup can find
PersonAbroad == Person("core", Some(<<8, 9>>), "US", NoneOpt, NoneOpt, Missing)
\* coordinates and time zone, but the required key city is missing
PersonNoCity == Person("core", NoKey, "US", Some(12), Some(41), "Europe/Rome")

\* the required keys of a birth-data schema
BirthKeys == {"name", "year", "month", "day", "hour", "minute", "city", "nation"}

\* a tool descriptor of tools/list
Tool(name, required) ==
    [name |-> name, description |-> "text", inputSchema |-> [required |-> required]]

\* a catalog that also advertises a name tools/call does not know
CatalogAdvertisesMore ==
    << Tool("get_current_time", {}),
       Tool("create_astrological_subject", BirthKeys),
       Tool("get_natal_aspects", BirthKeys),
       Tool("get_synastry_aspects", {"person1_data", "person2_data"}),
       Tool("create_composite_chart", {"person1_data", "person2_data"}),
       Tool("bogus", {}) >>
\* the tool catalog, in the order tools/list gives it
Catalog ==
    << Tool("get_current_time", {}),
       Tool("create_astrological_subject", BirthKeys),
       Tool("get_natal_aspects", BirthKeys),
       Tool("get_synastry_aspects", {"person1_data", "person2_data"}),
       Tool("create_composite_chart", {"person1_data", "person2_data"}) >>
OnePersonTools == {"create_astrological_subject", "get_natal_aspects"}
TwoPersonTools == {"get_synastry_aspects", "create_composite_chart"}
AdapterTools == OnePersonTools \cup TwoPersonTools

Ids == {"7", None, Missing}

\* a line of stdin.  json: "invalid" (not JSON), "empty" (blank line),
\* "scalar" (JSON, but not an object), "object".  params and arguments:
\* "missing", "nonmap" (null, a list, a string...) or "map".
Line(json, id, method, params, name, arguments, p1, p2) ==
    [json |-> json, id |-> id, method |-> method, params |-> params,
     name |-> name, arguments |-> arguments, p1 |-> p1, p2 |-> p2]

NonObjectLines ==
    {Line(j, Missing, Missing, "missing", Missing, "missing", NoPerson, NoPerson) :
        j \in {"invalid", "empty", "scalar"}}

\* params are ignored unless the method is tools/call
PlainLines ==
    {Line("object", id, m, "missing", Missing, "missing", NoPerson, NoPerson) :
        id \in Ids, m \in {"initialize", "tools/list", "frobnicate", Missing}}

\* tools/call without a params mapping
BareCallLines ==
    {Line("object", id, "tools/call", ps, Missing, "missing", NoPerson, NoPerson) :
        id \in Ids, ps \in {"missing", "nonmap"}}

\* tools/call of a tool that takes no arguments, or of no known tool
SimpleCallLines ==
    {Line("object", id, "tools/call", "map", n, "missing", NoPerson, NoPerson) :
        id \in Ids, n \in {"get_current_time", "bogus", Missing}}

\* the argument mappings the server is driven with
OnePersonArgs == {<<"missing", EmptyPerson, NoPerson>>,
                  <<"nonmap", NoPerson, NoPerson>>,
                  <<"map", PersonExplicit, NoPerson>>,
                  <<"map", PersonShanghai, NoPerson>>,
                  <<"map", PersonNoCity, NoPerson>>}
TwoPersonArgs == {<<"missing", NoPerson, NoPerson>>,
                  <<"nonmap", NoPerson, NoPerson>>,
                  <<"map", PersonShanghai, NoPerson>>,
                  <<"map", PersonExplicit, PersonAbroad>>}

AdapterCallLines ==
    {Line("object", id, "tools/call", "map", n, a[1], a[2], a[3]) :
        id \in Ids, n \in OnePersonTools, a \in OnePersonArgs}
    \cup
    {Line("object", id, "tools/call", "map", n, a[1], a[2], a[3]) :
        id \in Ids, n \in TwoPersonTools, a \in TwoPersonArgs}

Lines == NonObjectLines \cup PlainLines \cup BareCallLines
         \cup SimpleCallLines \cup AdapterCallLines

-----------------------------------------------------------------------------
(* Working directory, environment and temporary directories *)

\* the directory the process was started in
StartDir == <<"start">>
\* temp_dir = None
NoDir == <<>>
\* the n-th directory tempfile.mkdtemp creates
TmpDir(n) == <<"tmp", n>>

\* the variables the sandbox of an adapter operation overwrites
SandboxVars == {"KERYKEION_CACHE_DIR", "XDG_CACHE_HOME", "TMPDIR", "TMP", "TEMP",
                "PYTHONUSERBASE"}
\* the variables setup_environment sets before makedirs, and after it
SetupVarsFirst == {"KERYKEION_CACHE_DIR", "XDG_CACHE_HOME", "TMPDIR", "TMP", "TEMP",
                   "HOME"}
SetupVarsLast == {"PYTHONUSERBASE"}
EnvVars == SandboxVars \cup SetupVarsFirst \cup SetupVarsLast

\* values of an environment variable: not set, the value the process
\* inherited, the server-wide cache directory, a sandbox directory
Unset == <<"unset">>
Inherited == <<"inherited">>
CacheDir == <<"cache">>

\* the environments the process may be started in
InitialEnvs == {[v \in EnvVars |-> Unset],
                [v \in EnvVars |-> Inherited],
                [v \in EnvVars |-> IF v \in {"TMPDIR", "HOME"} THEN Inherited ELSE Unset]}

\* the environment the server is started in
ServerEnv == [v \in EnvVars |-> IF v \in {"TMPDIR", "HOME"} THEN Inherited ELSE Unset]

\* original_env = {} : nothing snapshotted yet
NotSaved == <<"not", "saved">>
NoSnapshot == [v \in SandboxVars |-> NotSaved]

\* os.environ.get(key): None for a variable that is not set
EnvGet(e, v) == IF e[v] = Unset THEN NoneOpt ELSE Some(e[v])

\* the loop `original_env[key] = os.environ.get(key); os.environ[key] = value`
SnapshotEnv(e) == [v \in SandboxVars |-> EnvGet(e, v)]
OverwriteEnv(e, dir) == [v \in EnvVars |-> IF v \in SandboxVars THEN dir ELSE e[v]]

\* the loop of the finally block over original_env.items()
\* a variable that was unset before the call is left as the call set it
RestoreOneKeepsNew(saved, current) ==
    IF saved = NotSaved \/ IsNone(saved) THEN current ELSE Val(saved)
RestoreOne(saved, current) ==
    IF saved = NotSaved THEN current
    ELSE IF IsNone(saved) THEN Unset
    ELSE Val(saved)
\* the finally block without its loop over original_env
RestoreEnvSkipped(e, snap) == e
RestoreEnv(e, snap) ==
    [v \in EnvVars |-> IF v \in SandboxVars THEN RestoreOne(snap[v], e[v]) ELSE e[v]]

-----------------------------------------------------------------------------
(* The clock: datetime.now() is the local wall-clock time, given here by    *)
(* the seconds since the epoch and the offset of the local zone from UTC    *)

Clock(t, offset) == [t |-> t, offset |-> offset]

\* instants the clock is read at: the first second and the last second of
\* the first day of the epoch, 2000-02-29 00:00:00, 2024-02-29 23:59:59,
\* 2025-11-04 19:00:00 and 2038-01-18 04:00:00 (UTC), in three zones
Clocks ==
    {Clock(t, offset) : t \in {1, 86399, 951782400, 1709251199, 1762282800, 2147400000},
                        offset \in {0, 28800, -18000}}

\* strftime("%A") by now.weekday(), Monday first
WeekdayNames == <<"Monday", "Tuesday", "Wednesday", "Thursday", "Friday", "Saturday",
                  "Sunday">>

\* year, month and day of the proleptic Gregorian calendar for a number of
\* days since 1970-01-01
CivilFromDays(days) ==
    LET z == days + 719468
        era == z \div 146097
        doe == z - era * 146097
        yoe == (doe - doe \div 1460 + doe \div 36524 - doe \div 146096) \div 365
        doy == doe - (365 * yoe + yoe \div 4 - yoe \div 100)
        mp == (5 * doy + 2) \div 153
        m == IF mp < 10 THEN mp + 3 ELSE mp - 9
    IN  [year |-> yoe + era * 400 + (IF m <= 2 THEN 1 ELSE 0),
         month |-> m,
         day |-> doy - (153 * mp + 2) \div 5 + 1]

\* the month counted from zero
TimeDataZeroBasedMonth(now) ==
    LET local == now.t + now.offset
        date == CivilFromDays(local \div 86400)
        secs == local % 86400
    IN  [year |-> date.year, month |-> date.month - 1, day |-> date.day,
         hour |-> secs \div 3600, minute |-> (secs % 3600) \div 60, second |-> secs % 60,
         weekday |-> WeekdayNames[(((local \div 86400) + 3) % 7) + 1],
         datetime_str |-> <<date.year, date.month, date.day,
                            secs \div 3600, (secs % 3600) \div 60, secs % 60>>,
         timestamp |-> now.t]
\* the `result` mapping of get_current_time
TimeData(now) ==
    LET local == now.t + now.offset
        date == CivilFromDays(local \div 86400)
        secs == local % 86400
    IN  [year |-> date.year, month |-> date.month, day |-> date.day,
         hour |-> secs \div 3600, minute |-> (secs % 3600) \div 60, second |-> secs % 60,
         weekday |-> WeekdayNames[(((local \div 86400) + 3) % 7) + 1],
         datetime_str |-> <<date.year, date.month, date.day,
                            secs \div 3600, (secs % 3600) \div 60, secs % 60>>,
         timestamp |-> now.t]

\* an outcome without time data
NoData ==
    [year |-> 0, month |-> 0, day |-> 0, hour |-> 0, minute |-> 0, second |-> 0,
     weekday |-> "", datetime_str |-> <<>>, timestamp |-> 0]

-----------------------------------------------------------------------------
(* Adapter outcomes, tool payloads and response envelopes *)

\* {success: True, data: ...} or {success: False, error, debug_info}.
\* serializable: json.dumps accepts the outcome; error_city: the city the
\* error message quotes, if it quotes one
\* input: the arguments a success result echoes; astrological_data: what
\* the engine computed, written as the invocations it was computed from
NoInput == [p1 |-> NoPerson, p2 |-> NoPerson, used_coordinates |-> Missing]
Outcome(op, success, error, serializable) ==
    [op |-> op, success |-> success, error |-> error, serializable |-> serializable,
     aspects_count |-> 0, aspects |-> <<>>, error_city |-> NoKey, data |-> NoData,
     input |-> NoInput, astrological_data |-> <<>>]
NoOutcome == Outcome("none", FALSE, "", TRUE)

\* str(e) if e and str(e) else the fixed unknown-error text
ErrorText(msg) == IF msg = "" THEN "unknown error" ELSE msg
Failure(op, msg) == Outcome(op, FALSE, ErrorText(msg), TRUE)

\* the text of a tool payload: json.dumps(outcome), or one of the two
\* f-strings of handle_tools_call
JsonText(outcome) == [form |-> "json", name |-> "", outcome |-> outcome]
UnknownToolText(name) == [form |-> "unknown tool", name |-> name, outcome |-> NoOutcome]
CallErrorText == [form |-> "call error", name |-> "", outcome |-> NoOutcome]
NoText == [form |-> "none", name |-> "", outcome |-> NoOutcome]

NoResult == [kind |-> "none", tools |-> <<>>, isError |-> FALSE, text |-> NoText]
InitializeResult == [kind |-> "initialize", tools |-> <<>>, isError |-> FALSE, text |-> NoText]
ToolsListResult == [kind |-> "tools", tools |-> Catalog, isError |-> FALSE, text |-> NoText]
ToolResult(text, isError) ==
    [kind |-> "tool", tools |-> <<>>, isError |-> isError, text |-> text]

\* a response object: keys are its fields besides jsonrpc and id
ResultResponse(id, result) ==
    [jsonrpc |-> "2.0", id |-> id, keys |-> {"result"}, result |-> result,
     code |-> 0, message |-> ""]
\* an error response that also carries a result
ErrorResponseWithResult(id, code, message) ==
    [jsonrpc |-> "2.0", id |-> id, keys |-> {"result", "error"}, result |-> NoResult,
     code |-> code, message |-> message]
ErrorResponse(id, code, message) ==
    [jsonrpc |-> "2.0", id |-> id, keys |-> {"error"}, result |-> NoResult,
     code |-> code, message |-> message]
NoResponse ==
    [jsonrpc |-> "", id |-> None, keys |-> {}, result |-> NoResult,
     code |-> 0, message |-> ""]

-----------------------------------------------------------------------------
(* The frame of an adapter operation *)

\* no exception is propagating
NoExc == "<no exception>"

\* str(e) of what the engine raises: a message, or nothing
EngineErrors == {"engine error", ""}

\* str(e) of the exceptions Python itself raises in the adapters
TypeErrorText == "TypeError"
AttributeErrorText == "AttributeError"
KeyErrorText == "KeyError"
OSErrorText == "OSError"

\* the message create_astrological_subject wraps a failed city lookup in;
\* it quotes the city
CityErrorText == "city not found: <city>"

IdleFrame ==
    [op |-> "none", caller |-> "none", p1 |-> NoPerson, p2 |-> NoPerson,
     longitude |-> NoneOpt, latitude |-> NoneOpt, tz_str |-> None,
     original_cwd |-> NoDir, temp_dir |-> NoDir, original_env |-> NoSnapshot,
     exc |-> NoExc, stage |-> 0, outcome |-> NoOutcome, rmtree |-> "not called",
     cache_dirs |-> FALSE, exc_city |-> NoKey,
     zodiac_type |-> None, sidereal_mode |-> None]

\* arguments.get("city") and p.get('city', '')
CityGet(c) == IF c = NoKey THEN NoneOpt ELSE c
CityGetDefault(c) == IF c = NoKey THEN Some(<<>>) ELSE c

\* Python truthiness of a tz_str: None and "" are false
Truthy(tz) == tz \notin {None, Missing, ""}

\* the frame at the call of a one-person operation: positional arguments
\* read with arguments.get
\* arguments.get("zodiac_type", "Tropical") in the dispatcher, the default
\* None of the parameter in a direct call
ZodiacArgument(op, caller, v, default) ==
    IF op # "create_astrological_subject" THEN None
    ELSE IF caller = "server" THEN GetDefault(v, default)
    ELSE Get(v)

OnePersonFrame(op, caller, p) ==
    [IdleFrame EXCEPT !.op = op, !.caller = caller, !.p1 = p,
                      !.longitude = p.longitude, !.latitude = p.latitude,
                      !.tz_str = Get(p.tz_str), !.stage = 1,
                      !.zodiac_type =
                          ZodiacArgument(op, caller, p.zodiac_type, "Tropical"),
                      !.sidereal_mode =
                          ZodiacArgument(op, caller, p.sidereal_mode, "LAHIRI")]

TwoPersonFrame(op, caller, p1, p2) ==
    [IdleFrame EXCEPT !.op = op, !.caller = caller, !.p1 = p1, !.p2 = p2,
                      !.stage = 1]

\* create_astrological_subject before its sandbox: the resolver and the
\* time-zone default (tz_str is None)
CreateSubjectEntry(f, g, dir) ==
    LET city == CityGet(f.p1.city)
        nation == Get(f.p1.nation)
        lookup == IsNone(f.longitude) \/ IsNone(f.latitude)
        r == IF lookup THEN find_city_coordinates(g, city, nation) ELSE Absent
        tz == IF nation = "CN" /\ f.tz_str = None THEN "Asia/Shanghai" ELSE f.tz_str
        zodiac == IF f.zodiac_type = None THEN "Tropic" ELSE f.zodiac_type
    IN  IF r.kind = "raise"
        THEN [f EXCEPT !.exc = TypeErrorText, !.zodiac_type = zodiac]
        ELSE [f EXCEPT !.zodiac_type = zodiac,
                       !.latitude = IF r.kind = "found" THEN r.latitude ELSE @,
                       !.longitude = IF r.kind = "found" THEN r.longitude ELSE @,
                       !.tz_str = tz,
                       !.original_cwd = dir]

\* the other three operations only read os.getcwd() before acquiring
PlainEntry(f, dir) == [f EXCEPT !.original_cwd = dir]

\* the frame a call starts with, up to the point where mkdtemp is called
EntryFrame(op, caller, p1, p2, g, dir) ==
    IF op = "create_astrological_subject"
    THEN CreateSubjectEntry(OnePersonFrame(op, caller, p1), g, dir)
    ELSE IF op = "get_natal_aspects"
    THEN PlainEntry(OnePersonFrame(op, caller, p1), dir)
    ELSE PlainEntry(TwoPersonFrame(op, caller, p1, p2), dir)

\* where acquiring the sandbox may fail
AcquireFailures(op) ==
    IF op \in OnePersonTools THEN {"none", "mkdtemp", "chdir", "makedirs"}
    ELSE {"none", "mkdtemp", "chdir"}

-----------------------------------------------------------------------------
(* What an adapter operation does between acquiring and releasing *)

\* entries of `calls`: a consultation of the resolver, the construction of
\* a subject by the engine, or the engine work after the subjects
\* (json(), the aspects, the composite)
ResolveEvent(who, r) ==
    [ev |-> "resolve", who |-> who, mode |-> r.kind, lng |-> r.longitude,
     lat |-> r.latitude, tz |-> "", result |-> r.kind, zodiac |-> "<omitted>"]
SubjectEvent(who, mode, lng, lat, tz, result) ==
    [ev |-> "subject", who |-> who, mode |-> mode, lng |-> lng, lat |-> lat,
     tz |-> tz, result |-> result, zodiac |-> "<omitted>"]
FinishEvent(result) ==
    [ev |-> "finish", who |-> 0, mode |-> "", lng |-> NoneOpt, lat |-> NoneOpt,
     tz |-> "", result |-> result, zodiac |-> "<omitted>"]

\* zodiac_type and sidereal_mode handed on to the engine
ZodiacPassedThrough(f) == <<f.zodiac_type, f.sidereal_mode>>
\* no call of AstrologicalSubject has a zodiac_type or sidereal_mode argument
ZodiacPassed(f) == "<omitted>"

\* tz_str is passed to the engine only when it is truthy
TzPassed(tz) == IF Truthy(tz) THEN tz ELSE "<omitted>"

\* a plan: the exception raised before the engine is reached (or NoExc),
\* the resolver consultations, and the engine invocation
Plan(exc, events, mode, lng, lat, tz, frame) ==
    [exc |-> exc, events |-> events, mode |-> mode, lng |-> lng, lat |-> lat,
     tz |-> tz, frame |-> frame]

\* create_astrological_subject: coordinates and time zone were settled at entry
CreateSubjectPlan(f) ==
    IF ~IsNone(f.longitude) /\ ~IsNone(f.latitude)
    THEN Plan(NoExc, <<>>, "coords", f.longitude, f.latitude, TzPassed(f.tz_str), f)
    ELSE Plan(NoExc, <<>>, "city", NoneOpt, NoneOpt, "<omitted>", f)

\* get_natal_aspects: resolver and time-zone default inside the sandbox;
\* `longitude, latitude = coords` unpacks the (latitude, longitude) pair
NatalPlan(f, g) ==
    LET city == CityGet(f.p1.city)
        nation == Get(f.p1.nation)
        lookup == IsNone(f.longitude) \/ IsNone(f.latitude)
        r == find_city_coordinates(g, city, nation)
        ev == IF lookup THEN <<ResolveEvent(1, r)>> ELSE <<>>
        lng == IF lookup /\ r.kind = "found" THEN r.latitude ELSE f.longitude
        lat == IF lookup /\ r.kind = "found" THEN r.longitude ELSE f.latitude
        tz == IF nation = "CN" /\ ~Truthy(f.tz_str) THEN "Asia/Shanghai" ELSE f.tz_str
        f2 == [f EXCEPT !.longitude = lng, !.latitude = lat, !.tz_str = tz]
    IN  IF lookup /\ r.kind = "raise"
        THEN Plan(TypeErrorText, ev, "", NoneOpt, NoneOpt, "", f)
        ELSE IF ~IsNone(lng) /\ ~IsNone(lat)
        THEN Plan(NoExc, ev, "coords", lng, lat, TzPassed(tz), f2)
        ELSE Plan(NoExc, ev, "city", NoneOpt, NoneOpt, "<omitted>", f2)

\* get_synastry_aspects and create_composite_chart, person `who`:
\* both mappings are copied first, then each subject is built in turn
PersonPlan(f, g, who) ==
    LET p == IF who = 1 THEN f.p1 ELSE f.p2
        nation == GetDefault(p.nation, "")
        tz == IF Get(p.nation) = "CN" /\ ~Truthy(p.tz_str) THEN "Asia/Shanghai"
              ELSE Get(p.tz_str)
        given == ~IsNone(p.longitude) /\ ~IsNone(p.latitude)
        r == find_city_coordinates(g, CityGetDefault(p.city), nation)
        ev == IF given THEN <<>> ELSE <<ResolveEvent(who, r)>>
    IN  IF ~f.p1.given \/ ~f.p2.given
        THEN Plan(AttributeErrorText, <<>>, "", NoneOpt, NoneOpt, "", f)
        ELSE IF ~given /\ r.kind = "raise"
        THEN Plan(TypeErrorText, ev, "", NoneOpt, NoneOpt, "", f)
        ELSE IF p.core = Missing
        THEN Plan(KeyErrorText, ev, "", NoneOpt, NoneOpt, "", f)
        ELSE IF given
        THEN Plan(NoExc, ev, "coords", p.longitude, p.latitude, TzPassed(tz), f)
        ELSE IF r.kind = "found"
        THEN Plan(NoExc, ev, "coords", r.longitude, r.latitude, TzPassed(tz), f)
        ELSE Plan(NoExc, ev, "city", NoneOpt, NoneOpt, "<omitted>", f)

SubjectPlan(f, g) ==
    IF f.op = "create_astrological_subject" THEN CreateSubjectPlan(f)
    ELSE IF f.op = "get_natal_aspects" THEN NatalPlan(f, g)
    ELSE PersonPlan(f, g, f.stage)

\* number of subjects an operation builds
Subjects(op) == IF op \in TwoPersonTools THEN 2 ELSE 1

\* the engine's exception passed on as it is
SubjectErrorUnwrapped(f, mode, msg) == msg
\* str(e) of the exception that leaves the engine's constructor
SubjectError(f, mode, msg) ==
    IF f.op = "create_astrological_subject" /\ mode = "city"
    THEN CityErrorText
    ELSE msg

\* the city that exception's message quotes: f"... '{city}' ..."
ErrorCity(f, mode, text) ==
    IF text = CityErrorText THEN CityGet(f.p1.city) ELSE NoKey

\* the aspect objects the engine may hand back, by capability
AspectLists == {<<>>, <<"model_dump", "dict">>, <<"mapping">>, <<"opaque", "dict">>}

\* model_dump(), else dict(), else the object itself
NormalizeAspect(a) == IF a \in {"model_dump", "dict", "mapping"} THEN "plain" ELSE a
NormalizeAspects(as) == [i \in 1..Len(as) |-> NormalizeAspect(as[i])]

HasAspects(op) == op \in {"get_natal_aspects", "get_synastry_aspects"}

\* the engine invocations among the entries of `calls`
IsSubject(e) == e.ev = "subject"
EngineInvocations(cs) == SelectSeq(cs, IsSubject)

\* "input" of a one-person result: the arguments, with longitude, latitude
\* and tz_str as the local variables hold them when the result is built;
\* "person1_input" and "person2_input": the mappings as they were passed
UsedCoordinates(f) ==
    IF f.op # "create_astrological_subject" THEN Missing
    ELSE IF ~IsNone(f.longitude) /\ ~IsNone(f.latitude) THEN "True"
    ELSE "False"
ResultInput(f) ==
    IF f.op \in OnePersonTools
    THEN [p1 |-> Person(Get(f.p1.core), CityGet(f.p1.city), Get(f.p1.nation),
                        f.longitude, f.latitude, f.tz_str),
          p2 |-> NoPerson,
          used_coordinates |-> UsedCoordinates(f)]
    ELSE [p1 |-> f.p1, p2 |-> f.p2, used_coordinates |-> Missing]

\* {"success": True, "data": result}
Success(op, as) ==
    [Outcome(op, TRUE, "", \A i \in 1..Len(as) : NormalizeAspect(as[i]) = "plain")
        EXCEPT !.aspects_count = Len(as), !.aspects = NormalizeAspects(as)]

-----------------------------------------------------------------------------
(* Responses of the dispatcher *)

\* get_current_time(): datetime.now() decomposed
TimeOutcome(now) ==
    [Outcome("get_current_time", TRUE, "", TRUE) EXCEPT !.data = TimeData(now)]

\* request.get("id")
RequestId(req) == Get(req.id)

handle_initialize(req) == ResultResponse(RequestId(req), InitializeResult)
\* a catalog that lost its last tool
handle_tools_list_short(req) ==
    ResultResponse(RequestId(req),
                   [ToolsListResult EXCEPT !.tools = SubSeq(Catalog, 1, 4)])
handle_tools_list(req) == ResultResponse(RequestId(req), ToolsListResult)
\* an unknown method answered like initialize
MethodNotFoundAsResult(req) == ResultResponse(RequestId(req), InitializeResult)
MethodNotFound(req) ==
    ErrorResponse(RequestId(req), MethodNotFoundCode, "Method not found")
\* the parse error reported under the code of the internal error
ParseErrorWrongCode == ErrorResponse(None, InternalErrorCode, "Parse error")
ParseError == ErrorResponse(None, ParseErrorCode, "Parse error")
InternalError == ErrorResponse(None, InternalErrorCode, "Internal error: ")

\* the isError the dispatcher attaches to the outcome of a known tool
OutcomeIsError(outcome) == FALSE

\* the envelope around what an adapter returned: json.dumps of the outcome;
\* a TypeError of json.dumps is caught by the except of the tool call
WrapOutcome(req, outcome) ==
    IF outcome.serializable
    THEN ResultResponse(RequestId(req),
                        ToolResult(JsonText(outcome), OutcomeIsError(outcome)))
    ELSE ResultResponse(RequestId(req), ToolResult(CallErrorText, TRUE))

\* an unknown tool reported as a protocol error
UnknownToolAsError(req) ==
    ErrorResponse(RequestId(req), MethodNotFoundCode, "Method not found")
UnknownTool(req) ==
    ResultResponse(RequestId(req), ToolResult(UnknownToolText(Get(req.name)), TRUE))
CallError(req) == ResultResponse(RequestId(req), ToolResult(CallErrorText, TRUE))

\* what `input` keeps of a line: which branch of main it takes
LineClass(line) ==
    IF line.json # "object" THEN line.json
    ELSE IF line.method \in {"initialize", "tools/list"} THEN line.method
    ELSE IF line.method # "tools/call" THEN "other method"
    ELSE IF line.params = "nonmap" THEN "tools/call, params no mapping"
    ELSE "tools/call"

\* what `output` keeps of a printed response
Printed(resp) == [keys |-> resp.keys, code |-> resp.code, kind |-> resp.result.kind]

\* json.loads(line.strip()) raises JSONDecodeError
IsDecodeError(line) == line.json \in {"invalid", "empty"}

\* an exception that is no JSONDecodeError leaves the try block of main:
\* request.get on a value that is no dict, params.get on params that are none
EscapesDispatch(line) ==
    \/ line.json = "scalar"
    \/ line.json = "object" /\ line.method = "tools/call" /\ line.params = "nonmap"

IsToolsCall(line) ==
    line.json = "object" /\ line.method = "tools/call" /\ line.params # "nonmap"

-----------------------------------------------------------------------------
(* The main loop *)

\* no line is being processed
NoRequest == Line("none", Missing, Missing, "missing", Missing, "missing",
                  NoPerson, NoPerson)

Init ==
    /\ pc = "Start"
    /\ input = <<>>
    /\ output = <<>>
    /\ request = NoRequest
    /\ response = NoResponse
    /\ cwd = StartDir
    /\ env = ServerEnv
    /\ env0 = ServerEnv
    /\ dirs = {}
    /\ gazetteer = SampleGazetteer
    /\ fr = IdleFrame
    /\ calls = <<>>

\* setup_environment(): a server-wide cache directory; any failure is ignored
SetupEnv(e, fail) ==
    [v \in EnvVars |->
        IF fail = "mkdtemp" THEN e[v]
        ELSE IF v \in SetupVarsFirst THEN CacheDir
        ELSE IF v \in SetupVarsLast /\ fail = "none" THEN CacheDir
        ELSE e[v]]

Setup ==
    /\ pc = "Start"
    /\ \E fail \in {"none", "mkdtemp", "makedirs"} : env' = SetupEnv(env, fail)
    /\ env0' = env'
    /\ pc' = "Reading"
    /\ UNCHANGED <<input, output, request, response, cwd, dirs, gazetteer,
                   fr, calls>>

\* for line in sys.stdin
ReadLine ==
    /\ pc = "Reading"
    /\ Len(input) < MaxLines
    /\ \E line \in Lines :
          /\ input' = Append(input, LineClass(line))
          /\ request' = line
    /\ pc' = "Dispatching"
    /\ UNCHANGED <<output, response, cwd, env, env0, dirs, gazetteer, fr, calls>>

EndOfInput ==
    /\ pc = "Reading"
    /\ pc' = "Done"
    /\ UNCHANGED <<input, output, request, response, cwd, env, env0, dirs,
                   gazetteer, fr, calls>>

\* a response that needs no adapter operation
Answer(r) ==
    /\ response' = r
    /\ pc' = "Responding"
    /\ UNCHANGED <<input, output, request, cwd, env, env0, dirs, gazetteer, fr, calls>>

\* a line that is not JSON is skipped without a response
DecodeErrorSkips ==
    /\ pc = "Dispatching"
    /\ IsDecodeError(request)
    /\ pc' = "Reading"
    /\ UNCHANGED <<input, output, request, response, cwd, env, env0, dirs,
                   gazetteer, fr, calls>>

DecodeError ==
    /\ pc = "Dispatching"
    /\ IsDecodeError(request)
    /\ Answer(ParseError)

\* the exception ends the loop
DispatchErrorEndsLoop ==
    /\ pc = "Dispatching"
    /\ EscapesDispatch(request)
    /\ pc' = "Done"
    /\ UNCHANGED <<input, output, request, response, cwd, env, env0, dirs,
                   gazetteer, fr, calls>>

DispatchError ==
    /\ pc = "Dispatching"
    /\ EscapesDispatch(request)
    /\ Answer(InternalError)

Initialize ==
    /\ pc = "Dispatching"
    /\ request.json = "object" /\ request.method = "initialize"
    /\ Answer(handle_initialize(request))

ToolsList ==
    /\ pc = "Dispatching"
    /\ request.json = "object" /\ request.method = "tools/list"
    /\ Answer(handle_tools_list(request))

UnknownMethod ==
    /\ pc = "Dispatching"
    /\ request.json = "object"
    /\ request.method \notin {"initialize", "tools/list", "tools/call"}
    /\ Answer(MethodNotFound(request))

\* tools/call answered by the dispatcher itself
ToolsCallDirect ==
    /\ pc = "Dispatching"
    /\ IsToolsCall(request)
    /\ \/ /\ Get(request.name) = "get_current_time"
          /\ \E now \in Clocks : Answer(WrapOutcome(request, TimeOutcome(now)))
       \/ /\ Get(request.name) \in AdapterTools
          /\ request.arguments = "nonmap"
          /\ Answer(CallError(request))
       \/ /\ Get(request.name) \notin AdapterTools \cup {"get_current_time"}
          /\ Answer(UnknownTool(request))

\* os.getcwd() raises when the working directory of the process no longer
\* exists
GetCwd(f, exists) ==
    IF f.exc = NoExc /\ ~exists
    THEN [f EXCEPT !.exc = OSErrorText, !.original_cwd = NoDir]
    ELSE f

\* get_natal_aspects reads os.getcwd() before its try statement: what it
\* raises there is not caught by the operation
EscapesAtEntry(op) == op = "get_natal_aspects"

\* tools/call of an adapter operation: the call, up to its mkdtemp.  An
\* exception of create_astrological_subject before its inner try goes
\* straight to its outer except, as does a failed os.getcwd() of the
\* two-person operations
StartCall(op, caller, p1, p2) ==
    \E exists \in BOOLEAN :
    LET f == GetCwd(EntryFrame(op, caller, p1, p2, gazetteer, cwd), exists)
    IN  /\ fr' = IF f.exc = NoExc \/ EscapesAtEntry(op) THEN f
                 ELSE [f EXCEPT !.outcome = Failure(op, f.exc)]
        /\ pc' = IF f.exc = NoExc THEN "Acquire"
                 ELSE IF EscapesAtEntry(op) THEN "Raised"
                 ELSE "Returned"
        /\ calls' = IF op = "create_astrological_subject"
                       /\ (IsNone(p1.longitude) \/ IsNone(p1.latitude))
                    THEN <<ResolveEvent(1, find_city_coordinates(
                              gazetteer, CityGet(p1.city), Get(p1.nation)))>>
                    ELSE <<>>

\* a call without arguments is refused with an error response
ToolsCallAdapterRefuses ==
    /\ pc = "Dispatching"
    /\ IsToolsCall(request)
    /\ Get(request.name) \in AdapterTools
    /\ request.arguments # "nonmap"
    /\ \/ /\ request.arguments = "missing"
          /\ Answer(ErrorResponse(RequestId(request), InternalErrorCode,
                                  "missing arguments"))
       \/ /\ request.arguments # "missing"
          /\ StartCall(request.name, "server", request.p1, request.p2)
          /\ UNCHANGED <<input, output, request, response, cwd, env, env0, dirs,
                         gazetteer>>

ToolsCallAdapter ==
    /\ pc = "Dispatching"
    /\ IsToolsCall(request)
    /\ Get(request.name) \in AdapterTools
    /\ request.arguments # "nonmap"
    /\ StartCall(request.name, "server", request.p1, request.p2)
    /\ UNCHANGED <<input, output, request, response, cwd, env, env0, dirs, gazetteer>>

\* mkdtemp, chdir and, in the one-person operations, the environment
\* overwrite and the cache subdirectories; mkdtemp names a directory that
\* does not exist yet, here after the number n of the request
AcquireSandbox(f, e, dir, n, fail) ==
    LET d == TmpDir(n)
        created == fail # "mkdtemp"
        entered == fail \notin {"mkdtemp", "chdir"}
        withEnv == entered /\ f.op \in OnePersonTools
    IN  [cwd |-> IF entered THEN d ELSE dir,
         env |-> IF withEnv THEN OverwriteEnv(e, d) ELSE e,
         new |-> IF created THEN {d} ELSE {},
         fr |-> [f EXCEPT !.temp_dir = IF created THEN d ELSE NoDir,
                          !.original_env = IF withEnv THEN SnapshotEnv(e) ELSE @,
                          !.cache_dirs = withEnv /\ fail = "none",
                          !.exc = IF fail = "none" THEN NoExc ELSE OSErrorText]]

Acquire ==
    /\ pc = "Acquire"
    /\ \E fail \in AcquireFailures(fr.op) :
          LET a == AcquireSandbox(fr, env, cwd, Len(input), fail)
          IN  /\ cwd' = a.cwd
              /\ env' = a.env
              /\ dirs' = dirs \cup a.new
              /\ fr' = a.fr
              /\ pc' = IF fail = "none" THEN "Body" ELSE "Release"
    /\ UNCHANGED <<env0, input, output, request, response, gazetteer, calls>>

\* one subject: the resolver where the operation consults it here, then
\* the engine's constructor, which returns or raises
BuildSubject ==
    /\ pc = "Body"
    /\ fr.stage <= Subjects(fr.op)
    /\ LET plan == SubjectPlan(fr, gazetteer)
       IN  IF plan.exc # NoExc
           THEN /\ calls' = calls \o plan.events
                /\ fr' = [plan.frame EXCEPT !.exc = plan.exc]
                /\ pc' = "Release"
           ELSE \E result \in {"ok"} \cup EngineErrors :
                   /\ calls' = calls \o plan.events \o
                               <<[SubjectEvent(fr.stage, plan.mode, plan.lng, plan.lat,
                                               plan.tz, result)
                                     EXCEPT !.zodiac = ZodiacPassed(fr)]>>
                   /\ IF result = "ok"
                      THEN /\ fr' = [plan.frame EXCEPT !.stage = @ + 1]
                           /\ pc' = "Body"
                      ELSE /\ fr' = [plan.frame EXCEPT
                                        !.exc = SubjectError(fr, plan.mode, result),
                                        !.exc_city = ErrorCity(fr, plan.mode,
                                            SubjectError(fr, plan.mode, result))]
                           /\ pc' = "Release"
    /\ UNCHANGED <<input, output, request, response, cwd, env, env0, dirs, gazetteer>>

\* after the subjects: json(), the aspects or the composite, the result
FinishBody ==
    /\ pc = "Body"
    /\ fr.stage > Subjects(fr.op)
    /\ \E result \in {"ok"} \cup EngineErrors,
          as \in IF HasAspects(fr.op) THEN AspectLists ELSE {<<>>} :
          /\ calls' = Append(calls, FinishEvent(result))
          /\ fr' = IF result = "ok"
                   THEN [fr EXCEPT !.outcome =
                            [Success(fr.op, as) EXCEPT
                                !.input = ResultInput(fr),
                                !.astrological_data = EngineInvocations(calls)]]
                   ELSE [fr EXCEPT !.exc = result]
    /\ pc' = "Release"
    /\ UNCHANGED <<input, output, request, response, cwd, env, env0, dirs, gazetteer>>

\* what the operation returns: the success mapping, or the mapping its
\* except clause builds
ReturnValue(f) ==
    IF f.exc = NoExc THEN f.outcome
    ELSE [Failure(f.op, f.exc) EXCEPT !.error_city = f.exc_city]

\* the directory is removed only when the operation succeeded
DeletesOnSuccessOnly(f) == f.temp_dir # NoDir /\ f.exc = NoExc
\* `if temp_dir and os.path.exists(temp_dir)`: the finally block calls rmtree
Deletes(f) == f.temp_dir # NoDir

\* the finally block without its os.chdir(original_cwd)
ReleaseStaysInSandbox ==
    /\ pc = "Release"
    /\ cwd' = cwd
    /\ env' = RestoreEnv(env, fr.original_env)
    /\ \E deleted \in IF Deletes(fr) THEN BOOLEAN ELSE {FALSE} :
          /\ dirs' = IF deleted THEN dirs \ {fr.temp_dir} ELSE dirs
          /\ fr' = [fr EXCEPT !.outcome = ReturnValue(fr),
                              !.rmtree = IF ~Deletes(fr) THEN "not called"
                                         ELSE IF deleted THEN "ok" ELSE "failed"]
    /\ pc' = "Returned"
    /\ UNCHANGED <<env0, input, output, request, response, gazetteer, calls>>

\* the finally block: chdir back, restore the environment, delete the
\* temporary directory (a failed deletion is swallowed)
Release ==
    /\ pc = "Release"
    /\ cwd' = fr.original_cwd
    /\ env' = RestoreEnv(env, fr.original_env)
    /\ \E deleted \in IF Deletes(fr) THEN BOOLEAN ELSE {FALSE} :
          /\ dirs' = IF deleted THEN dirs \ {fr.temp_dir} ELSE dirs
          /\ fr' = [fr EXCEPT !.outcome = ReturnValue(fr),
                              !.rmtree = IF ~Deletes(fr) THEN "not called"
                                         ELSE IF deleted THEN "ok" ELSE "failed"]
    /\ pc' = "Returned"
    /\ UNCHANGED <<env0, input, output, request, response, gazetteer, calls>>

\* back in handle_tools_call: the envelope around the outcome
ToolsCallReturn ==
    /\ pc = "Returned"
    /\ fr.caller = "server"
    /\ response' = WrapOutcome(request, fr.outcome)
    /\ pc' = "Responding"
    /\ UNCHANGED <<input, output, request, cwd, env, env0, dirs, gazetteer, fr, calls>>

\* the exception of the adapter operation ends the loop
ToolsCallRaisedEndsLoop ==
    /\ pc = "Raised"
    /\ fr.caller = "server"
    /\ pc' = "Done"
    /\ UNCHANGED <<input, output, request, response, cwd, env, env0, dirs,
                   gazetteer, fr, calls>>

\* the adapter operation raised: the except clause of handle_tools_call
ToolsCallRaised ==
    /\ pc = "Raised"
    /\ fr.caller = "server"
    /\ response' = CallError(request)
    /\ pc' = "Responding"
    /\ UNCHANGED <<input, output, request, cwd, env, env0, dirs, gazetteer, fr, calls>>

\* print(json.dumps(response)); sys.stdout.flush()
Respond ==
    /\ pc = "Responding"
    /\ output' = Append(output, Printed(response))
    /\ request' = NoRequest
    /\ response' = NoResponse
    /\ fr' = IdleFrame
    /\ calls' = <<>>
    /\ pc' = "Reading"
    /\ UNCHANGED <<input, cwd, env, env0, dirs, gazetteer>>

Next ==
    \/ Setup
    \/ ReadLine
    \/ EndOfInput
    \/ DecodeError
    \/ DispatchError
    \/ Initialize
    \/ ToolsList
    \/ UnknownMethod
    \/ ToolsCallDirect
    \/ ToolsCallAdapter
    \/ Acquire
    \/ BuildSubject
    \/ FinishBody
    \/ Release
    \/ ToolsCallReturn
    \/ ToolsCallRaised
    \/ Respond

Spec == Init /\ [][Next]_vars

-----------------------------------------------------------------------------
(* Properties of the dispatcher *)

\* the response main gives to a line of each class
Answers(class, printed) ==
    IF class \in {"invalid", "empty"}
    THEN printed = [keys |-> {"error"}, code |-> -32700, kind |-> "none"]
    ELSE IF class \in {"scalar", "tools/call, params no mapping"}
    THEN printed = [keys |-> {"error"}, code |-> -32603, kind |-> "none"]
    ELSE IF class = "other method"
    THEN printed = [keys |-> {"error"}, code |-> -32601, kind |-> "none"]
    ELSE IF class = "initialize"
    THEN printed = [keys |-> {"result"}, code |-> 0, kind |-> "initialize"]
    ELSE IF class = "tools/list"
    THEN printed = [keys |-> {"result"}, code |-> 0, kind |-> "tools"]
    ELSE printed = [keys |-> {"result"}, code |-> 0, kind |-> "tool"]

\* C1: every line read gets exactly one response line, and the k-th line
\* printed is the response to the k-th line read: between two reads the
\* output is as long as the input, during the processing of a line it is
\* one shorter, and each printed line is the answer to the line at its
\* position.
C1_OneResponsePerLine ==
    /\ pc \in {"Start", "Reading", "Done"} => Len(output) = Len(input)
    /\ pc \notin {"Start", "Reading", "Done"} => Len(output) = Len(input) - 1
    /\ \A k \in 1..Len(output) : Answers(input[k], output[k])

\* two lines answered, the first of them not JSON, the second a tool call
C1_Witness ==
    /\ pc = "Done"
    /\ Len(output) = 2
    /\ input[1] = "invalid"
    /\ input[2] = "tools/call"

\* C2: the response to a request that decodes to an object carries the id
\* of the request.
C2_IdEchoed ==
    pc = "Responding" /\ request.json = "object" => response.id = RequestId(request)

\* C3: a line that is not JSON, a blank line included, is answered with
\* the parse error (id null, code -32700, "Parse error"), and a
\* tools/list line that follows it gets the parse error printed before it
\* and the tool list as its own response.
C3_ParseErrorIsolated ==
    /\ pc = "Responding" /\ request.json \in {"invalid", "empty"} =>
          /\ response.jsonrpc = "2.0"
          /\ response.id = None
          /\ response.keys = {"error"}
          /\ response.code = -32700
          /\ response.message = "Parse error"
    /\ /\ pc = "Responding"
       /\ Len(input) >= 2
       /\ input[Len(input) - 1] \in {"invalid", "empty"}
       /\ request.json = "object"
       /\ request.method = "tools/list"
       => /\ output[Len(input) - 1] = [keys |-> {"error"}, code |-> -32700, kind |-> "none"]
          /\ response.keys = {"result"}
          /\ response.id = Get(request.id)
          /\ response.result.kind = "tools"
          /\ Len(response.result.tools) = 5

\* a blank line has been answered and the tools/list line after it is
\* about to be
C3_Witness ==
    /\ pc = "Responding"
    /\ Len(input) = 2
    /\ input[1] = "empty"
    /\ request.method = "tools/list"
    /\ response.result.kind = "tools"

\* C4: an object whose method is not initialize, tools/list or tools/call
\* (a missing method included) is answered with error -32601 "Method not
\* found" and no result, and no adapter operation or sandbox is started
\* for it.
C4_UnknownMethod ==
    /\ /\ pc = "Responding"
       /\ request.json = "object"
       /\ request.method \notin {"initialize", "tools/list", "tools/call"}
       => /\ response.keys = {"error"}
          /\ response.code = -32601
          /\ response.message = "Method not found"
          /\ fr = IdleFrame
          /\ calls = <<>>
          /\ cwd = StartDir
    /\ pc \in {"Acquire", "Body", "Release", "Returned"} => request.method = "tools/call"

\* a request without a method is being answered
C4_Witness ==
    /\ pc = "Responding"
    /\ request.json = "object"
    /\ request.method = Missing
    /\ response.code = -32601

\* C5: tools/call with a name that is none of the five tools (a missing
\* name included) is answered with a result, not an error, whose payload
\* has isError true and a text naming the tool, and no adapter operation
\* is started.
C5_UnknownTool ==
    /\ pc = "Responding"
    /\ request.json = "object"
    /\ request.method = "tools/call"
    /\ request.params # "nonmap"
    /\ Get(request.name) \notin {"get_current_time", "create_astrological_subject",
                                 "get_natal_aspects", "get_synastry_aspects",
                                 "create_composite_chart"}
    => /\ response.keys = {"result"}
       /\ response.result.kind = "tool"
       /\ response.result.isError = TRUE
       /\ response.result.text.form = "unknown tool"
       /\ response.result.text.name = Get(request.name)
       /\ fr = IdleFrame
       /\ calls = <<>>

\* a call of the tool "bogus" is being answered
C5_Witness ==
    /\ pc = "Responding"
    /\ request.method = "tools/call"
    /\ request.name = "bogus"
    /\ response.result.isError = TRUE

\* C6: the payload of a call of a known tool carries the JSON text of the
\* adapter's outcome and isError = not success.
C6_IsErrorNegatesSuccess ==
    /\ pc = "Responding"
    /\ request.method = "tools/call"
    /\ fr.caller = "server"
    => /\ response.result.text = JsonText(fr.outcome)
       /\ response.result.isError = ~fr.outcome.success

\* C7: a line whose dispatch raises something else than a JSON decode
\* error (a JSON value that is no object, tools/call with params that are
\* no mapping) gets exactly one response, error -32603 with a message
\* starting "Internal error: ", and the loop is back at reading.
C7_InternalError ==
    /\ /\ pc = "Responding"
       /\ \/ request.json = "scalar"
          \/ request.json = "object" /\ request.method = "tools/call"
                                     /\ request.params = "nonmap"
       => /\ response.keys = {"error"}
          /\ response.code = -32603
          /\ response.message = "Internal error: "
    /\ /\ Len(input) >= 1
       /\ input[Len(input)] \in {"scalar", "tools/call, params no mapping"}
       => /\ pc \in {"Dispatching", "Responding", "Reading", "Done"}
          /\ pc \in {"Reading", "Done"} =>
                /\ Len(output) = Len(input)
                /\ output[Len(input)] =
                      [keys |-> {"error"}, code |-> -32603, kind |-> "none"]

\* after a line that was no object a further line is being answered
C7_Witness ==
    /\ pc = "Responding"
    /\ Len(input) = 2
    /\ input[1] = "scalar"
    /\ Len(output) = 1
    /\ output[1].code = -32603

\* C8: every response is an object with jsonrpc "2.0", an id and exactly
\* one of result and error.
C8_Envelope ==
    /\ pc = "Responding" =>
          /\ response.jsonrpc = "2.0"
          /\ response.id # Missing
          /\ response.keys \in {{"result"}, {"error"}}
    /\ \A k \in 1..Len(output) : output[k].keys \in {{"result"}, {"error"}}

\* the outcome of an adapter operation whose engine raised is being sent
C8_Witness ==
    /\ pc = "Responding"
    /\ fr.caller = "server"
    /\ fr.exc \in EngineErrors
    /\ response.keys = {"result"}

\* C9: tools/list answers with the five descriptors get_current_time,
\* create_astrological_subject, get_natal_aspects, get_synastry_aspects,
\* create_composite_chart, each with name, description and inputSchema,
\* whatever was processed before.
C9_ToolsList ==
    /\ pc = "Responding"
    /\ request.json = "object"
    /\ request.method = "tools/list"
    => /\ response.keys = {"result"}
       /\ Len(response.result.tools) = 5
       /\ {response.result.tools[i].name : i \in 1..5} =
             {"get_current_time", "create_astrological_subject", "get_natal_aspects",
              "get_synastry_aspects", "create_composite_chart"}
       /\ \A i \in 1..5 :
             DOMAIN response.result.tools[i] = {"name", "description", "inputSchema"}

\* tools/list is being answered after a tool call
C9_Witness ==
    /\ pc = "Responding"
    /\ request.method = "tools/list"
    /\ Len(input) = 2
    /\ input[1] = "tools/call"
    /\ Len(response.result.tools) = 5


-----------------------------------------------------------------------------
(* The adapter operations called as a library (kerykeion_mcp.__init__       *)
(* exports them): any sequence of calls, from any starting environment.    *)
(* Here `input` counts the calls made and `output` keeps the success flag  *)
(* of each outcome returned.                                               *)

\* number of calls in a row
MaxCalls == 2

\* the birth data the operations are called with
Cities == {NoKey, NoneOpt, Some(<<>>), Some(ShangHai), Some(<<8, 9>>)}
CallPersons ==
    {Person("core", c, n, xy[1], xy[2], tz) :
        c \in Cities, n \in {"CN", "US"},
        xy \in {<<NoneOpt, NoneOpt>>, <<Some(12), Some(41)>>, <<Some(12), NoneOpt>>},
        tz \in {Missing, "", "Europe/Rome"}}
Partners == {NoPerson, PersonExplicit, PersonShanghai,
             Person(Missing, Some(ShangHai), "CN", NoneOpt, NoneOpt, "")}

InitCalls ==
    /\ pc = "Idle"
    /\ input = <<>>
    /\ output = <<>>
    /\ request = NoRequest
    /\ response = NoResponse
    /\ cwd = StartDir
    /\ env \in InitialEnvs
    /\ env0 = env
    /\ dirs = {}
    /\ gazetteer \in Gazetteers
    /\ fr = IdleFrame
    /\ calls = <<>>

Call ==
    /\ pc = "Idle"
    /\ Len(input) < MaxCalls
    /\ input' = Append(input, "call")
    /\ \/ \E op \in OnePersonTools, p \in CallPersons :
             StartCall(op, "library", p, NoPerson)
       \/ \E op \in TwoPersonTools, p1 \in Partners, p2 \in Partners :
             StartCall(op, "library", p1, p2)
    /\ UNCHANGED <<output, request, response, cwd, env, env0, dirs, gazetteer>>

Return ==
    /\ pc = "Returned"
    /\ fr.caller = "library"
    /\ output' = Append(output, fr.outcome.success)
    /\ fr' = IdleFrame
    /\ calls' = <<>>
    /\ pc' = "Idle"
    /\ UNCHANGED <<input, request, response, cwd, env, env0, dirs, gazetteer>>

\* the exception of the operation reaches the caller
Raise ==
    /\ pc = "Raised"
    /\ fr.caller = "library"
    /\ output' = Append(output, FALSE)
    /\ fr' = IdleFrame
    /\ calls' = <<>>
    /\ pc' = "Idle"
    /\ UNCHANGED <<input, request, response, cwd, env, env0, dirs, gazetteer>>

NextCalls ==
    \/ Call
    \/ Acquire
    \/ BuildSubject
    \/ FinishBody
    \/ Release
    \/ Return
    \/ Raise

SpecCalls == InitCalls /\ [][NextCalls]_vars

-----------------------------------------------------------------------------
(* Properties of the adapter operations *)

\* C10: when an adapter operation has returned, the working directory and
\* each of KERYKEION_CACHE_DIR, XDG_CACHE_HOME, TMPDIR, TMP, TEMP,
\* PYTHONUSERBASE are what they were before the call (unset if unset
\* before), whether the engine returned or raised, after every call of a
\* sequence.
C10_SandboxRestored ==
    pc \in {"Idle", "Returned"} =>
        /\ cwd = StartDir
        /\ \A v \in SandboxVars : env[v] = env0[v]

\* the second call, of create_astrological_subject, had its sandbox and
\* its engine raised; TMPDIR was set and XDG_CACHE_HOME unset at the start
C10_Witness ==
    /\ pc = "Returned"
    /\ Len(input) = 2
    /\ output = <<TRUE>>
    /\ fr.op = "create_astrological_subject"
    /\ fr.temp_dir # NoDir
    /\ fr.original_env # NoSnapshot
    /\ fr.exc = "engine error"
    /\ env0["TMPDIR"] = Inherited
    /\ env0["XDG_CACHE_HOME"] = Unset

\* C11 as stated: once an adapter operation has returned, and between
\* requests, no temporary directory of a request is left.
C11_NoSandboxRemains ==
    pc \in {"Returned", "Responding", "Reading", "Done"} => dirs = {}

\* C11: on every exit path of an adapter operation that created its
\* temporary directory (success, engine exception, failure before the
\* engine) rmtree is called on it; when rmtree succeeds the directory is
\* gone; when rmtree fails the failure is swallowed, the directory stays
\* and the outcome is the one the operation had: success when nothing was
\* raised, else the failure carrying that exception's message.
C11_SandboxDeleted ==
    pc = "Returned" /\ fr.caller = "server" =>
        /\ fr.temp_dir # NoDir => fr.rmtree \in {"ok", "failed"}
        /\ fr.rmtree = "ok" => fr.temp_dir \notin dirs
        /\ fr.rmtree = "failed" => fr.temp_dir \in dirs
        /\ fr.outcome.success = (fr.exc = NoExc)
        /\ fr.exc # NoExc => fr.outcome.error = ErrorText(fr.exc)

\* the sandbox could not be completed (chdir or makedirs failed after
\* mkdtemp), and the directory made for it has been deleted
C11_Witness ==
    /\ pc = "Returned"
    /\ fr.exc = OSErrorText
    /\ fr.temp_dir # NoDir
    /\ fr.rmtree = "ok"
    /\ calls = <<>>
    /\ dirs = {}

\* the engine has been invoked by the operation in progress
EngineCalled == \E i \in 1..Len(calls) : calls[i].ev \in {"subject", "finish"}

\* C12: whenever the engine has been invoked by an adapter operation that
\* has not yet released its sandbox, the working directory is the
\* operation's temporary directory, which exists, each of the six
\* cache/temp variables points at it, its prior value is in the snapshot,
\* and the cache subdirectories have been created.
C12_SandboxAcquired ==
    pc \in {"Body", "Release"} /\ EngineCalled =>
        /\ fr.temp_dir # NoDir
        /\ fr.temp_dir \in dirs
        /\ cwd = fr.temp_dir
        /\ \A v \in SandboxVars : /\ env[v] = fr.temp_dir
                                   /\ fr.original_env[v] = EnvGet(env0, v)
        /\ fr.cache_dirs

\* C13: no adapter operation raises to its caller; an operation in which
\* something was raised returns success false with a non-empty error
\* message: the message of the exception, or the fixed unknown-error text
\* when that message is empty.
C13_NeverRaises ==
    /\ pc # "Raised"
    /\ pc = "Returned" /\ fr.exc # NoExc =>
          /\ ~fr.outcome.success
          /\ fr.outcome.error # ""
          /\ fr.outcome.error = IF fr.exc = "" THEN "unknown error" ELSE fr.exc

-----------------------------------------------------------------------------
(* The resolver on its own: find_city_coordinates applied to one query      *)
(* (fr.p1.city, fr.p1.nation) against one gazetteer; `calls` receives what  *)
(* it returned or that it raised.                                           *)

\* a county whose name contains "Fengning"
FengNingXian == <<1, 2, 9>>

\* provinces as china_cities.json may list them; Hebei in three versions
ProvincePool ==
    { [prov |-> "Jiangsu",
       cities |-> << [name |-> ShangHaiXin, latitude |-> 32, longitude |-> 120] >>],
      [prov |-> "Hebei",
       cities |-> << [name |-> ChengDe, latitude |-> 41, longitude |-> 118] >>],
      [prov |-> "Hebei",
       cities |-> << [name |-> FengNingXian, latitude |-> 42, longitude |-> 117],
                     [name |-> ChengDe, latitude |-> 41, longitude |-> 118] >>],
      [prov |-> "Hebei",
       cities |-> << [name |-> FengNingXian, latitude |-> 42, longitude |-> 117] >>],
      [prov |-> "Shanghai",
       cities |-> << [name |-> ShangHai, latitude |-> 31, longitude |-> 121] >>] }

\* the file contents: provinces in any order, no province twice; the empty
\* one is also what load_china_cities gives for a missing or unreadable file
ResolverGazetteers ==
    {<<>>}
    \cup {<<a>> : a \in ProvincePool}
    \cup {t \in ProvincePool \X ProvincePool : t[1].prov # t[2].prov}
    \cup {t \in ProvincePool \X ProvincePool \X ProvincePool :
              /\ t[1].prov # t[2].prov
              /\ t[1].prov # t[3].prov
              /\ t[2].prov # t[3].prov}

\* city arguments: None, "", names in the pool, a part of one, an unknown one
QueryCities == {NoneOpt, Some(<<>>), Some(ShangHai), Some(ShangHaiXin), Some(FengNing),
                Some(ChengDe), Some(<<5>>), Some(<<8, 9>>)}
QueryNations == {"CN", "US", None, ""}

InitResolver ==
    /\ pc = "Query"
    /\ input = <<>>
    /\ output = <<>>
    /\ request = NoRequest
    /\ response = NoResponse
    /\ cwd = StartDir
    /\ env = ServerEnv
    /\ env0 = ServerEnv
    /\ dirs = {}
    /\ gazetteer \in ResolverGazetteers
    /\ \E city \in QueryCities, nation \in QueryNations :
          fr = [IdleFrame EXCEPT !.p1 = Person("core", city, nation, NoneOpt, NoneOpt,
                                               Missing)]
    /\ calls = <<>>

Resolve ==
    /\ pc = "Query"
    /\ calls' = <<ResolveEvent(1, find_city_coordinates(gazetteer, fr.p1.city,
                                                        fr.p1.nation))>>
    /\ pc' = "Resolved"
    /\ UNCHANGED <<input, output, request, response, cwd, env, env0, dirs,
                   gazetteer, fr>>

NextResolver == Resolve

SpecResolver == InitResolver /\ [][NextResolver]_vars

\* C14: for nation CN and a city that is a string, the result is the
\* coordinate of the first entry whose key equals the query, whatever
\* entries contain or are contained in the query and wherever they stand;
\* without such an entry, of the first entry that contains the query or is
\* contained in it; without any of these, of Chengde in Hebei when the
\* query contains "Fengning" and that entry exists; else absent.
C14_MatchOrder ==
    pc = "Resolved" /\ fr.p1.nation = "CN" /\ ~IsNone(fr.p1.city) =>
        LET city == Val(fr.p1.city)
            res == calls[1]
            P == Positions(gazetteer)
            At(q) == CityAt(gazetteer, q)
            exact == {q \in P : At(q).name = city}
            fuzzy == {q \in P : IsSubstr(city, At(q).name) \/ IsSubstr(At(q).name, city)}
            alias == {q \in P : /\ gazetteer[q[1]].prov = "Hebei"
                                /\ At(q).name = ChengDe
                                /\ IsSubstr(FengNing, city)}
            Hit(q) == /\ res.mode = "found"
                      /\ res.lat = Some(At(q).latitude)
                      /\ res.lng = Some(At(q).longitude)
            FirstHit(S) == \E q \in S : (\A r \in S : r = q \/ Before(q, r)) /\ Hit(q)
        IN  /\ exact # {} => FirstHit(exact)
            /\ exact = {} /\ fuzzy # {} => FirstHit(fuzzy)
            /\ exact = {} /\ fuzzy = {} /\ alias # {} => FirstHit(alias)
            /\ exact = {} /\ fuzzy = {} /\ alias = {} => res.mode = "absent"

\* "Shanghai" is a key of the third province while the first province has
\* a city whose name contains it: the third province's entry is returned
C14_Witness ==
    /\ pc = "Resolved"
    /\ gazetteer = SampleGazetteer
    /\ fr.p1.city = Some(ShangHai)
    /\ fr.p1.nation = "CN"
    /\ calls[1].mode = "found"
    /\ calls[1].lat = Some(31)
    /\ calls[1].lng = Some(121)

\* C15: find_city_coordinates never raises: for every city (None included),
\* nation and gazetteer (the empty one included) it returns a coordinate
\* pair or the absent pair.
C15_ResolverNeverRaises ==
    pc = "Resolved" =>
        \/ /\ calls[1].mode = "found"
           /\ ~IsNone(calls[1].lat)
           /\ ~IsNone(calls[1].lng)
        \/ /\ calls[1].mode = "absent"
           /\ IsNone(calls[1].lat)
           /\ IsNone(calls[1].lng)

\* the birth data of person `who` of the operation in progress
PersonOf(who) == IF who = 1 THEN fr.p1 ELSE fr.p2

\* C16: for each person of an adapter operation: with both coordinates
\* supplied the resolver is not consulted and the engine is invoked with
\* the supplied longitude and latitude; with both absent every engine
\* invocation for the person comes after a consultation of the resolver,
\* with the resolved longitude and latitude when the resolver found the
\* city, and by city and nation otherwise.
C16_CoordinatesConsulted ==
    \A i \in 1..Len(calls) :
        LET e == calls[i]
            p == PersonOf(e.who)
            supplied == ~IsNone(p.longitude) /\ ~IsNone(p.latitude)
            absent == IsNone(p.longitude) /\ IsNone(p.latitude)
        IN  /\ e.ev = "resolve" => ~supplied
            /\ e.ev = "subject" /\ supplied =>
                  /\ e.mode = "coords"
                  /\ e.lng = p.longitude
                  /\ e.lat = p.latitude
            /\ e.ev = "subject" /\ absent =>
                  \E j \in 1..(i - 1) :
                     /\ calls[j].ev = "resolve"
                     /\ calls[j].who = e.who
                     /\ IF calls[j].result = "found"
                        THEN /\ e.mode = "coords"
                             /\ e.lng = calls[j].lng
                             /\ e.lat = calls[j].lat
                        ELSE e.mode = "city"

\* C17: for each person of an adapter operation, every engine invocation
\* gets the explicit tz_str when one is given, and Asia/Shanghai when the
\* nation is CN and none is given (absent or empty), in all four
\* operations alike.
C17_TimeZoneRule ==
    \A i \in 1..Len(calls) :
        LET e == calls[i]
            p == PersonOf(e.who)
        IN  e.ev = "subject" =>
               /\ Truthy(p.tz_str) => e.tz = p.tz_str
               /\ ~Truthy(p.tz_str) /\ Get(p.nation) = "CN" => e.tz = "Asia/Shanghai"

\* the engine's own city lookup was tried for the only person and raised
CityLookupRaised ==
    /\ calls # <<>>
    /\ calls[Len(calls)].ev = "subject"
    /\ calls[Len(calls)].mode = "city"
    /\ calls[Len(calls)].result \in EngineErrors

\* C18: create_astrological_subject without coordinates, for a city the
\* resolver does not find, with the engine's city lookup raising: the
\* operation returns (it does not raise) success false with the message
\* that quotes the city, and working directory, environment and
\* temporary directory are released.
C18_MissingCoordinateFallback ==
    /\ pc \in {"Returned", "Raised"}
       /\ fr.op = "create_astrological_subject"
       /\ CityLookupRaised
       => /\ pc = "Returned"
          /\ IsNone(fr.p1.longitude) \/ IsNone(fr.p1.latitude)
          /\ calls[1].ev = "resolve" /\ calls[1].result = "absent"
          /\ ~fr.outcome.success
          /\ fr.outcome.error = CityErrorText
          /\ fr.outcome.error_city = CityGet(fr.p1.city)
          /\ cwd = StartDir
          /\ \A v \in SandboxVars : env[v] = env0[v]
          /\ fr.rmtree \in {"ok", "failed"}
          /\ fr.rmtree = "ok" => fr.temp_dir \notin dirs
    /\ pc = "Release" /\ fr.op = "create_astrological_subject" /\ CityLookupRaised
       => fr.exc = CityErrorText /\ fr.exc_city = CityGet(fr.p1.city)

\* a city abroad, no coordinates: the resolver was consulted and found
\* nothing, the engine's lookup raised without a message, and the
\* operation has returned
C18_Witness ==
    /\ pc = "Returned"
    /\ fr.op = "create_astrological_subject"
    /\ fr.p1.nation = "US"
    /\ fr.p1.city = Some(<<8, 9>>)
    /\ IsNone(fr.p1.longitude) /\ IsNone(fr.p1.latitude)
    /\ Len(calls) = 2
    /\ calls[2].mode = "city"
    /\ calls[2].result = ""
    /\ fr.outcome.error_city = Some(<<8, 9>>)
    /\ fr.rmtree = "ok"

\* C19: when get_natal_aspects or get_synastry_aspects returns success,
\* aspects_count is the length of aspects and every element of aspects is
\* a plain mapping, whatever kind of aspect objects the engine returned.
C19_AspectsNormalized ==
    pc = "Returned" /\ HasAspects(fr.op) /\ fr.outcome.success =>
        /\ fr.outcome.aspects_count = Len(fr.outcome.aspects)
        /\ \A i \in 1..Len(fr.outcome.aspects) : fr.outcome.aspects[i] = "plain"

\* C20: a tools/call of get_current_time is answered with the id of the
\* request, isError false and the JSON text of an outcome with success
\* true whose data has month 1..12, day 1..31, hour 0..23, minute 0..59,
\* second 0..59, a weekday name, datetime_str and a timestamp above zero;
\* no adapter operation is started for it, the working directory and the
\* environment are untouched and no temporary directory is made.
C20_CurrentTime ==
    /\ pc = "Responding"
    /\ request.json = "object"
    /\ request.method = "tools/call"
    /\ request.params # "nonmap"
    /\ Get(request.name) = "get_current_time"
    => /\ response.id = Get(request.id)
       /\ response.keys = {"result"}
       /\ response.result.isError = FALSE
       /\ response.result.text.form = "json"
       /\ LET outcome == response.result.text.outcome
              data == outcome.data
          IN  /\ outcome.success
              /\ data.year > 0
              /\ data.month \in 1..12
              /\ data.day \in 1..31
              /\ data.hour \in 0..23
              /\ data.minute \in 0..59
              /\ data.second \in 0..59
              /\ \E k \in 1..7 : data.weekday = WeekdayNames[k]
              /\ data.datetime_str = <<data.year, data.month, data.day,
                                       data.hour, data.minute, data.second>>
              /\ data.timestamp > 0
       /\ fr = IdleFrame
       /\ calls = <<>>
       /\ cwd = StartDir
       /\ env = env0
       /\ TmpDir(Len(input)) \notin dirs

\* the clock read at 2000-02-29 00:00:00 UTC, a Tuesday, for request 7
C20_Witness ==
    /\ pc = "Responding"
    /\ request.name = "get_current_time"
    /\ request.id = "7"
    /\ response.id = "7"
    /\ response.result.text.outcome.data.timestamp = 951782400
    /\ response.result.text.outcome.data.year = 2000
    /\ response.result.text.outcome.data.month = 2
    /\ response.result.text.outcome.data.day = 29
    /\ response.result.text.outcome.data.hour = 0
    /\ response.result.text.outcome.data.weekday = "Tuesday"

-----------------------------------------------------------------------------
(* create_astrological_subject called twice in a row, to compare what the  *)
(* two calls return, both made directly or both through tools/call.  Here  *)
(* `input` keeps the arguments of each call, `output` the mapping each     *)
(* call returned and the engine invocations it made.                       *)

\* the arguments of the calls: one city of the gazetteer; no coordinates,
\* the coordinates the gazetteer has for that city, or other coordinates
PairCoordinates == {<<NoneOpt, NoneOpt>>, <<Some(121), Some(31)>>, <<Some(12), Some(41)>>}
PairPersons ==
    {WithZodiac(Person("core", Some(ShangHai), "CN", xy[1], xy[2], tz), zodiac, mode) :
        xy \in PairCoordinates, tz \in {Missing, "Europe/Rome"},
        zodiac \in {Missing, "Sidereal"}, mode \in {Missing, "FAGAN_BRADLEY"}}

InitPairs ==
    /\ pc = "Idle"
    /\ input = <<>>
    /\ output = <<>>
    /\ request = NoRequest
    /\ response = NoResponse
    /\ cwd = StartDir
    /\ env = ServerEnv
    /\ env0 = env
    /\ dirs = {}
    /\ gazetteer = SampleGazetteer
    /\ fr = IdleFrame
    /\ calls = <<>>

CallPair(at, callers) ==
    /\ pc = at
    /\ \E p \in PairPersons, caller \in callers :
          /\ input' = Append(input, [caller |-> caller, arguments |-> p])
          /\ StartCall("create_astrological_subject", caller, p, NoPerson)
    /\ UNCHANGED <<output, request, response, cwd, env, env0, dirs, gazetteer>>

FirstCall == CallPair("Idle", {"library", "server"})
SecondCall == CallPair("Between", {input[1].caller})

ReturnPair ==
    /\ pc = "Returned"
    /\ output' = Append(output, [outcome |-> fr.outcome,
                                 engine |-> EngineInvocations(calls)])
    /\ fr' = IdleFrame
    /\ calls' = <<>>
    /\ pc' = IF output = <<>> THEN "Between" ELSE "Compared"
    /\ UNCHANGED <<input, request, response, cwd, env, env0, dirs, gazetteer>>

NextPairs ==
    \/ FirstCall
    \/ SecondCall
    \/ Acquire
    \/ BuildSubject
    \/ FinishBody
    \/ Release
    \/ ReturnPair

SpecPairs == InitPairs /\ [][NextPairs]_vars

\* the second call leaves the coordinates to the resolver, the first one
\* supplies the pair the resolver finds; nothing else differs
ExplicitThenResolved(a, b) ==
    /\ ~IsNone(a.longitude) /\ ~IsNone(a.latitude)
    /\ b = [a EXCEPT !.longitude = NoneOpt, !.latitude = NoneOpt]
    /\ LET r == find_city_coordinates(gazetteer, CityGet(b.city), Get(b.nation))
       IN  r.kind = "found" /\ r.longitude = a.longitude /\ r.latitude = a.latitude

\* C21: two successful calls of create_astrological_subject that differ
\* only in where the coordinate pair came from (supplied by the caller, or
\* the same pair found by the resolver) return results that differ
C21_SourceReported ==
    (pc = "Compared"
        /\ ExplicitThenResolved(input[1].arguments, input[2].arguments)
        /\ output[1].outcome.success /\ output[2].outcome.success)
    => output[1].outcome # output[2].outcome

-----------------------------------------------------------------------------
(* Sequencing of the main loop *)

\* the sandbox directories in force: the working directory or an
\* environment variable points into one, or an operation has created one
\* and not yet run its finally block
SandboxesHeld ==
    {d \in dirs \cup {fr.temp_dir} :
        /\ d # NoDir
        /\ \/ cwd = d
           \/ \E v \in EnvVars : env[v] = d
           \/ pc \in {"Body", "Release"} /\ fr.temp_dir = d}

\* the three phases of the loop body
Phase(p) ==
    IF p \in {"Start", "Reading", "Responding", "Done"} THEN p ELSE "Dispatching"

PhaseAfter(p) ==
    IF p = "Start" THEN {"Reading"}
    ELSE IF p = "Reading" THEN {"Dispatching", "Done"}
    ELSE IF p = "Dispatching" THEN {"Dispatching", "Responding"}
    ELSE IF p = "Responding" THEN {"Reading"}
    ELSE {}

Sequential ==
    /\ Phase(pc) \in {"Start", "Reading", "Done"} => Len(output) = Len(input)
    /\ Phase(pc) \in {"Dispatching", "Responding"} => Len(output) + 1 = Len(input)
    /\ Cardinality(SandboxesHeld) <= 1
    /\ SandboxesHeld # {} =>
          /\ pc \in {"Body", "Release"}
          /\ IsToolsCall(request)
          /\ Get(request.name) \in AdapterTools

\* C22: every line is answered before the next one is read, the loop goes
\* Reading -> Dispatching -> Responding -> Reading, at most one sandbox is
\* in force at any time, and one is in force only inside the dispatch of a
\* tools/call line, never when its response is written
C22_StrictlySequential ==
    [][/\ Sequential
       /\ Sequential'
       /\ Phase(pc') \in PhaseAfter(Phase(pc))
       /\ input' # input => pc = "Reading" /\ Len(output) = Len(input)]_vars

\* the second line is inside its sandbox, the first one has been answered
C22_Witness ==
    /\ pc = "Body"
    /\ SandboxesHeld = {fr.temp_dir}
    /\ Len(input) = 2
    /\ Len(output) = 1

-----------------------------------------------------------------------------
(* The main loop as one sequential thread that always takes its next step: *)
(* reading blocks until a line or the end of the stream arrives, and every *)
(* engine call returns or raises.                                          *)

SpecLive == Spec /\ WF_vars(Next)

\* C23: the loop is left only from reading, at the end of the stream; it
\* is left eventually, and by then every line read has been answered
C23_LoopEndsAtStreamEnd ==
    /\ [][pc' = "Done" => pc = "Reading"]_vars
    /\ [](pc = "Done" => Len(output) = Len(input))
    /\ <>(pc = "Done")

\* the stream ended after a line that was not JSON and a line whose
\* dispatch raised, both answered
C23_Witness ==
    /\ pc = "Done"
    /\ Len(input) = 2
    /\ input[1] = "invalid"
    /\ input[2] = "tools/call, params no mapping"
    /\ Len(output) = 2
    /\ output[2].code = InternalErrorCode

-----------------------------------------------------------------------------
(* Tool calls whose arguments are incomplete *)

\* a one-person argument mapping without one of the required keys
LacksBirthKey(p) == p.core = Missing \/ p.city = NoKey \/ p.nation = Missing

\* tools/call of a known tool: no arguments, an empty mapping, or a mapping
\* without a required key
LacksRequired(req) ==
    /\ IsToolsCall(req)
    /\ req.arguments # "nonmap"
    /\ \/ Get(req.name) = "get_current_time"
       \/ Get(req.name) \in OnePersonTools /\ LacksBirthKey(req.p1)
       \/ Get(req.name) \in TwoPersonTools /\ (~req.p1.given \/ ~req.p2.given)

\* the response is a result whose text is a failed adapter outcome
AnswersFailedOutcome(resp) ==
    /\ resp.keys = {"result"}
    /\ resp.result.kind = "tool"
    /\ resp.result.text.form = "json"
    /\ ~resp.result.text.outcome.success
    /\ resp.result.text.outcome.error # ""

\* C24 as claimed: a tools/call of a known tool with missing or incomplete
\* arguments is answered with a result whose text is an adapter outcome
\* with success false
C24_MissingArgumentsFail ==
    (pc = "Responding" /\ LacksRequired(request)) => AnswersFailedOutcome(response)

\* C24: a tools/call of a known tool with missing or incomplete arguments
\* reaches the adapter with the missing values as None and is answered
\* with a result, never with an error member; the text is an adapter
\* outcome with success false when a person mapping is missing
C24_MissingArgumentsAnswered ==
    (pc = "Responding" /\ LacksRequired(request)) =>
        /\ response.keys = {"result"}
        /\ response.result.kind = "tool"
        /\ Get(request.name) \in AdapterTools =>
              /\ fr.op = request.name
              /\ fr.p1 = request.p1
              /\ fr.p2 = request.p2
        /\ Get(request.name) \in OnePersonTools /\ request.p1.tz_str = Missing
              => fr.tz_str \in {None, "Asia/Shanghai"}
        /\ Get(request.name) \in TwoPersonTools => AnswersFailedOutcome(response)

\* get_synastry_aspects without arguments: None has no copy()
C24_Witness ==
    /\ pc = "Responding"
    /\ request.name = "get_synastry_aspects"
    /\ request.arguments = "missing"
    /\ response.keys = {"result"}
    /\ response.result.text.outcome.error = AttributeErrorText

-----------------------------------------------------------------------------
(* Isolation of the requests *)

\* C25: whatever lines were processed before, the dispatch of a line
\* starts from the same state: the working directory and the environment
\* are those the server had after its setup, and nothing of an earlier
\* call or response is left
C25_NoCrossRequestState ==
    pc = "Dispatching" =>
        /\ cwd = StartDir
        /\ env = env0
        /\ fr = IdleFrame
        /\ calls = <<>>
        /\ response = NoResponse

\* the dispatch of a second line starts after a tool call whose temporary
\* directory could not be deleted
C25_Witness ==
    /\ pc = "Dispatching"
    /\ Len(input) = 2
    /\ input[1] = "tools/call"
    /\ dirs # {}

\* C26: when the resolver finds a (latitude, longitude) pair for a person,
\* the engine is invoked for that person with lat the resolved latitude
\* and lng the resolved longitude, and a one-person result echoes the
\* same pair as latitude and longitude
C26_PairNotExchanged ==
    \A j \in 1..Len(calls) :
        (calls[j].ev = "resolve" /\ calls[j].result = "found") =>
            /\ \A i \in (j + 1)..Len(calls) :
                  (calls[i].ev = "subject" /\ calls[i].who = calls[j].who) =>
                      /\ calls[i].lat = calls[j].lat
                      /\ calls[i].lng = calls[j].lng
            /\ (pc = "Returned" /\ fr.outcome.success /\ fr.op \in OnePersonTools) =>
                  /\ fr.outcome.input.p1.latitude = calls[j].lat
                  /\ fr.outcome.input.p1.longitude = calls[j].lng

\* the two calls differ in zodiac_type or sidereal_mode and in nothing else
DifferInZodiacOnly(a, b) ==
    /\ a # b
    /\ [a EXCEPT !.zodiac_type = Missing, !.sidereal_mode = Missing]
          = [b EXCEPT !.zodiac_type = Missing, !.sidereal_mode = Missing]

\* what an engine invocation was made with
Parameters(e) ==
    [mode |-> e.mode, lng |-> e.lng, lat |-> e.lat, tz |-> e.tz, zodiac |-> e.zodiac]

-----------------------------------------------------------------------------
(* The standalone script: its main holds the whole dispatcher, with one    *)
(* try statement per tool inside the try statement of the loop             *)

\* the f-string of the except clause of one tool
ToolErrorText(name) == [form |-> "tool error", name |-> name, outcome |-> NoOutcome]

\* what the adapter called for the line did: it was not called, it returned
\* an outcome, or it raised
Behaviour(kind, outcome) == [kind |-> kind, outcome |-> outcome]

\* the else branch reporting a protocol error
StandaloneUnknownToolAsError(req) ==
    ErrorResponse(RequestId(req), MethodNotFoundCode, "Method not found")
\* the else branch of the chain over tool_name
StandaloneUnknownTool(req) ==
    ResultResponse(RequestId(req), ToolResult(UnknownToolText(Get(req.name)), TRUE))

\* the branch of one known tool: arguments.get, the adapter and json.dumps
\* are inside its try
StandaloneToolsCall(req, b) ==
    LET name == Get(req.name)
        failed == \/ name \in AdapterTools /\ req.arguments = "nonmap"
                  \/ b.kind = "raised"
                  \/ ~b.outcome.serializable
    IN  IF name \notin AdapterTools \cup {"get_current_time"}
        THEN StandaloneUnknownTool(req)
        ELSE IF failed
        THEN ResultResponse(RequestId(req), ToolResult(ToolErrorText(name), TRUE))
        ELSE ResultResponse(RequestId(req), ToolResult(JsonText(b.outcome), FALSE))

\* one iteration of the loop of the script
standalone_main(req, b) ==
    IF IsDecodeError(req) THEN ParseError
    ELSE IF req.json # "object" THEN InternalError
    ELSE IF req.method = "initialize"
    THEN ResultResponse(RequestId(req), InitializeResult)
    ELSE IF req.method = "tools/list"
    THEN ResultResponse(RequestId(req), ToolsListResult)
    ELSE IF req.method # "tools/call"
    THEN ErrorResponse(RequestId(req), MethodNotFoundCode, "Method not found")
    ELSE IF req.params = "nonmap" THEN InternalError
    ELSE StandaloneToolsCall(req, b)

\* what the adapter did for the line the server is answering
AdapterBehaviour ==
    IF fr.op # "none"
    THEN IF fr.outcome.op = "none" THEN Behaviour("raised", NoOutcome)
         ELSE Behaviour("returned", fr.outcome)
    ELSE IF IsToolsCall(request) /\ Get(request.name) = "get_current_time"
    THEN Behaviour("returned", response.result.text.outcome)
    ELSE Behaviour("none", NoOutcome)

\* the part of a response the two dispatchers are compared on
Envelope(r) ==
    [id |-> r.id, keys |-> r.keys, code |-> r.code, isError |-> r.result.isError]

\* C28: for every line and the same behaviour of the adapter, the response
\* of the server and the response of the standalone script have the same
\* id, the same one of result and error, the same error code and the same
\* isError
C28_DispatchersAgree ==
    pc = "Responding" =>
        Envelope(response) = Envelope(standalone_main(request, AdapterBehaviour))

\* a tools/call whose adapter raised: both answer with an isError result
C28_Witness ==
    /\ pc = "Responding"
    /\ AdapterBehaviour.kind = "raised"
    /\ response.result.isError
    /\ standalone_main(request, AdapterBehaviour).result.text.form = "tool error"

-----------------------------------------------------------------------------
(* Advertised and dispatched tool names *)

\* the names tools/list advertises
Advertised == {Catalog[i].name : i \in 1..Len(Catalog)}

\* C29: a tools/call is answered as unknown tool exactly when its name is
\* not one tools/list advertises, and a call of an advertised adapter
\* operation with an argument mapping reaches that operation
C29_AdvertisedIsDispatched ==
    (pc = "Responding" /\ IsToolsCall(request)) =>
        /\ response.keys = {"result"}
        /\ Get(request.name) \in Advertised
              <=> response.result.text.form # "unknown tool"
        /\ (Get(request.name) \in Advertised \ {"get_current_time"}
               /\ request.arguments # "nonmap")
              => fr.op = request.name
        /\ Get(request.name) \notin Advertised => fr = IdleFrame

\* an advertised name reached its adapter operation
C29_Witness ==
    /\ pc = "Responding"
    /\ IsToolsCall(request)
    /\ request.name = "create_composite_chart"
    /\ request.name \in Advertised
    /\ fr.op = "create_composite_chart"
    /\ response.result.text.form = "json"

\* C30: for nation CN and a gazetteer with at least one city, the empty
\* string as city resolves to the absent pair
C30_EmptyCityIsAbsent ==
    (pc = "Resolved" /\ fr.p1.nation = "CN" /\ fr.p1.city = Some(<<>>)
        /\ Positions(gazetteer) # {})
    => /\ calls[1].result = "absent"
       /\ IsNone(calls[1].lat)
       /\ IsNone(calls[1].lng)

====
